---- MODULE Spec2Model ----
(***************************************************************************)
(* UObjectPoolingComponent (DynamicObjectPooler plugin): the actor pool,   *)
(* its statistics counters, the observer delegates, the life span of the   *)
(* pooled actors in the host world and the asynchronous initialisation.    *)
(***************************************************************************)
EXTENDS Integers, Sequences, FiniteSets, TLC

\* ------------------------------------------------------------------ bounds
MaxActors == 2             \* actors the host world ever holds for this pool
MaxSpawnRequests == 4      \* calls of SpawnPooledActor on the authority
MaxReturnRequests == 2     \* explicit calls of ReturnObjectToPool
MaxInitialSize == 2        \* largest InitialSize argument
MaxInitialPoolSize == 2    \* largest configured InitialPoolSize
MaxTransform == 1          \* caller transforms are 1..MaxTransform
MaxMulticasts == 1         \* pool-initialized multicasts

\* ------------------------------------------------------- program constants
NULL == 0                  \* nullptr
ZeroVector == 0            \* FVector::ZeroVector, the identity transform
InitialSpawnZ == 100       \* FTransform(FRotator(0,0,0), FVector(0,0,100))

Stranger == MaxActors + 1  \* a valid actor that was never added to Pool
Transforms == 1..MaxTransform
Peers == {"authority", "remote"}
NoClass == "None"
ActorClass == "ActorClass"
SoftNull == "Null"        \* no path set
SoftPending == "Pending"  \* a loadable path, the class not yet in memory
SoftLoaded == "Loaded"    \* the class already in memory
PositiveLifespan == 1     \* a configured ActorLifespan > 0

VARIABLES
    authority,              \* GetOwner()->HasAuthority()
    bAutoExpand,            \* configuration
    ActorLifespan,          \* configuration: 0 or a positive duration
    InitialPoolSize,        \* configuration
    SoftPooledObjectClass,  \* configuration: deferred class reference
    PooledObjectClass,
    InitialSpawnTransform,
    Pool,                   \* TArray<AActor*>: sequence of actor ids
    actors,                 \* the host world's record of every actor spawned
    TotalObjectsCreated,
    ActiveObjects,
    InactiveObjects,
    TotalSpawnRequests,
    TotalReturnRequests,
    TotalPoolExpansions,
    PeakUsage,
    OnPooledActorSpawned,   \* number of broadcasts of the delegate
    OnPooledActorReturned,  \* number of broadcasts of the delegate
    OnPoolInitialized,      \* per peer: number of broadcasts of the delegate
    backgroundTasks,        \* AsyncTask(AnyBackgroundThreadNormalTask) queued
    gameThreadTasks,        \* AsyncTask(GameThread) queued
    asyncLoads,             \* RequestAsyncLoad calls in flight
    tornDown,               \* the component has been destroyed
    observed,               \* what a handler bound to OnPooledActorReturned
                            \* read at the latest broadcast of this call
    last,                   \* the call that produced this state
    cycle                   \* progress of the basic reuse cycle

config == <<authority, bAutoExpand, ActorLifespan, InitialPoolSize,
            SoftPooledObjectClass>>
counters == <<TotalObjectsCreated, ActiveObjects, InactiveObjects,
              TotalSpawnRequests, TotalReturnRequests, TotalPoolExpansions,
              PeakUsage>>
vars == <<authority, bAutoExpand, ActorLifespan, InitialPoolSize,
          SoftPooledObjectClass, PooledObjectClass,
          InitialSpawnTransform, Pool, actors, TotalObjectsCreated,
          ActiveObjects, InactiveObjects, TotalSpawnRequests,
          TotalReturnRequests, TotalPoolExpansions, PeakUsage,
          OnPooledActorSpawned, OnPooledActorReturned, OnPoolInitialized,
          backgroundTasks, gameThreadTasks, asyncLoads, tornDown, observed,
          last, cycle>>

\* No broadcast of OnPooledActorReturned in this call
NoObservation == [actor |-> NULL]

\* ------------------------------------------------------- component record
\* The fields the member functions write, gathered so that one member
\* function can call another (ExpandPool from GetPooledObject, ...).
Component ==
    [PooledObjectClass |-> PooledObjectClass,
     Pool |-> Pool,
     actors |-> actors,
     TotalObjectsCreated |-> TotalObjectsCreated,
     ActiveObjects |-> ActiveObjects,
     InactiveObjects |-> InactiveObjects,
     TotalSpawnRequests |-> TotalSpawnRequests,
     TotalReturnRequests |-> TotalReturnRequests,
     TotalPoolExpansions |-> TotalPoolExpansions,
     PeakUsage |-> PeakUsage,
     OnPooledActorSpawned |-> OnPooledActorSpawned,
     OnPooledActorReturned |-> OnPooledActorReturned,
     observed |-> NoObservation]

Commit(c) ==
    /\ PooledObjectClass' = c.PooledObjectClass
    /\ Pool' = c.Pool
    /\ actors' = c.actors
    /\ TotalObjectsCreated' = c.TotalObjectsCreated
    /\ ActiveObjects' = c.ActiveObjects
    /\ InactiveObjects' = c.InactiveObjects
    /\ TotalSpawnRequests' = c.TotalSpawnRequests
    /\ TotalReturnRequests' = c.TotalReturnRequests
    /\ TotalPoolExpansions' = c.TotalPoolExpansions
    /\ PeakUsage' = c.PeakUsage
    /\ OnPooledActorSpawned' = c.OnPooledActorSpawned
    /\ OnPooledActorReturned' = c.OnPooledActorReturned
    /\ observed' = c.observed

\* ------------------------------------------------------------ host world
\* World->SpawnActor<AActor>(Class, Transform): a valid, visible actor.
NewActor(location) ==
    [valid |-> TRUE, hidden |-> FALSE, collision |-> TRUE, tick |-> TRUE,
     replicates |-> FALSE, replicateMovement |-> FALSE,
     location |-> location, lifeSpan |-> FALSE, onDestroyed |-> 0]

\* What is left of an actor the world has destroyed. Nothing reads the
\* properties of a destroyed actor, so writes through a stale pointer to one
\* leave this record as it is.
Destroyed ==
    [valid |-> FALSE, hidden |-> TRUE, collision |-> FALSE, tick |-> FALSE,
     replicates |-> FALSE, replicateMovement |-> FALSE,
     location |-> ZeroVector, lifeSpan |-> FALSE, onDestroyed |-> 0]

\* Mutant: the authority gate is missing.
IsServerAlways == TRUE

\* bool IsServer() const { return GetOwner()->HasAuthority(); }
IsServer == authority

IsValidClass(class) == class # NoClass

\* IsValid(Actor) for an actor the world knows
IsValid(c, Actor) ==
    /\ Actor \in DOMAIN c.actors
    /\ c.actors[Actor].valid

\* TArray::Contains
Contains(pool, Actor) == \E i \in 1..Len(pool) : pool[i] = Actor

\* TArray::Last
Last(pool) == pool[Len(pool)]

\* A pointer read from a Pool slot. The slot of a destroyed actor holds the
\* stale pointer until the garbage collector clears the reference.
ReadSlot(c, slot, collected) ==
    IF IsValid(c, c.Pool[slot]) \/ ~collected THEN c.Pool[slot] ELSE NULL

\* ----------------------------------------------------- member functions
\* Mutant: an allocation is not counted as an expansion.
ExpandPoolNoExpansionCount(c, worldOk, spawnOk) ==
    IF ~IsServer \/ ~worldOk \/ ~IsValidClass(c.PooledObjectClass)
    THEN c
    ELSE IF spawnOk
         THEN LET id == Len(c.actors) + 1
                  spawned == [NewActor(ZeroVector) EXCEPT
                                  !.hidden = TRUE,
                                  !.collision = FALSE,
                                  !.tick = FALSE,
                                  !.replicates = TRUE,
                                  !.replicateMovement = FALSE]
                  pool == Append(c.Pool, id)
              IN  [c EXCEPT
                      !.actors = Append(c.actors, spawned),
                      !.Pool = pool,
                      !.TotalObjectsCreated = @ + 1,
                      !.InactiveObjects = Len(pool) - c.ActiveObjects]
         ELSE c

\* void UObjectPoolingComponent::ExpandPool()
ExpandPool(c, worldOk, spawnOk) ==
    IF ~IsServer \/ ~worldOk \/ ~IsValidClass(c.PooledObjectClass)
    THEN c
    ELSE IF spawnOk
         THEN LET id == Len(c.actors) + 1
                  spawned == [NewActor(ZeroVector) EXCEPT
                                  !.hidden = TRUE,
                                  !.collision = FALSE,
                                  !.tick = FALSE,
                                  !.replicates = TRUE,
                                  !.replicateMovement = FALSE]
                  pool == Append(c.Pool, id)
              IN  [c EXCEPT
                      !.actors = Append(c.actors, spawned),
                      !.Pool = pool,
                      !.TotalObjectsCreated = @ + 1,
                      !.TotalPoolExpansions = @ + 1,
                      !.InactiveObjects = Len(pool) - c.ActiveObjects]
         ELSE c

\* OnPooledActorReturned.Broadcast(Actor): the bound handlers run inside the
\* call and read the actor and the statistics as they are at that point.
BroadcastReturned(c, Actor) ==
    [c EXCEPT
        !.OnPooledActorReturned = @ + 1,
        !.observed = [actor |-> Actor,
                      hidden |-> c.actors[Actor].hidden,
                      ActiveObjects |-> c.ActiveObjects,
                      InactiveObjects |-> c.InactiveObjects,
                      TotalReturnRequests |-> c.TotalReturnRequests]]

\* The statistics update of ReturnObjectToPool (lines 167-174), in the
\* order of the statements
ReturnCounters(c, Actor) ==
    LET counted == [c EXCEPT
                       !.ActiveObjects = @ - 1,
                       !.InactiveObjects = Len(c.Pool) - (c.ActiveObjects - 1)]
        notified == BroadcastReturned(counted, Actor)
    IN  [notified EXCEPT !.TotalReturnRequests = @ + 1]

\* Mutant: the returned actor is not hidden.
ReturnObjectToPoolKeepsVisible(c, Actor) ==
    IF ~authority \/ Actor = NULL \/ ~Contains(c.Pool, Actor)
    THEN c
    ELSE ReturnCounters(
            [c EXCEPT !.actors[Actor] = [@ EXCEPT
                                            !.collision = FALSE,
                                            !.tick = FALSE,
                                            !.location = ZeroVector,
                                            !.replicates = FALSE,
                                            !.replicateMovement = FALSE]],
            Actor)

\* void UObjectPoolingComponent::ReturnObjectToPool(AActor* Actor)
ReturnObjectToPool(c, Actor) ==
    IF ~authority \/ Actor = NULL \/ ~Contains(c.Pool, Actor)
    THEN c
    ELSE ReturnCounters(
            [c EXCEPT !.actors[Actor] = [@ EXCEPT
                                            !.hidden = TRUE,
                                            !.collision = FALSE,
                                            !.tick = FALSE,
                                            !.location = ZeroVector,
                                            !.replicates = FALSE,
                                            !.replicateMovement = FALSE]],
            Actor)

\* void UObjectPoolingComponent::HandleDestroyedActor(AActor* DestroyedActor)
HandleDestroyedActor(c, DestroyedActor) ==
    IF IsValid(c, DestroyedActor) /\ Contains(c.Pool, DestroyedActor)
    THEN ReturnObjectToPool(c, DestroyedActor)
    ELSE c

\* Actor->OnDestroyed.Broadcast(Actor): every binding that AddDynamic has
\* added is invoked, the same handler once per binding.
RECURSIVE BroadcastOnDestroyed(_, _, _)
BroadcastOnDestroyed(c, Actor, bindings) ==
    IF bindings = 0
    THEN c
    ELSE BroadcastOnDestroyed(HandleDestroyedActor(c, Actor), Actor, bindings - 1)

\* AActor::Destroy as the host world runs it: the destruction notification
\* goes out while the actor is still valid, then the actor is gone, and its
\* timer and its delegate bindings with it.
DestroyActor(c, Actor) ==
    LET notified == BroadcastOnDestroyed(c, Actor, c.actors[Actor].onDestroyed)
    IN  [notified EXCEPT !.actors[Actor] = Destroyed]

\* Mutant: the scan forgets Actor->IsHidden().
DormantSlotsNoHiddenCheck(c) ==
    {i \in 1..Len(c.Pool) : IsValid(c, c.Pool[i])}

\* The slots the scan of GetPooledObject accepts (line 123)
DormantSlots(c) ==
    {i \in 1..Len(c.Pool) : IsValid(c, c.Pool[i]) /\ c.actors[c.Pool[i]].hidden}

\* for (AActor* Actor : Pool): the first slot accepted
FirstDormant(c) ==
    CHOOSE i \in DormantSlots(c) : \A j \in DormantSlots(c) : i <= j

\* Mutant: the auto-expansion branch is missing.
GetPooledObjectNoExpand(c, worldOk, spawnOk, collected) ==
    IF Len(c.Pool) = 0 \/ DormantSlots(c) = {}
    THEN [c |-> c, ret |-> NULL]
    ELSE LET Actor == c.Pool[FirstDormant(c)]
         IN  [c |-> [c EXCEPT !.actors[Actor] = [@ EXCEPT
                                                    !.hidden = FALSE,
                                                    !.collision = TRUE,
                                                    !.tick = TRUE,
                                                    !.replicates = TRUE,
                                                    !.replicateMovement = TRUE]],
              ret |-> Actor]

\* AActor* UObjectPoolingComponent::GetPooledObject()
GetPooledObject(c, worldOk, spawnOk, collected) ==
    IF Len(c.Pool) = 0
    THEN [c |-> c, ret |-> NULL]
    ELSE IF DormantSlots(c) # {}
    THEN LET Actor == c.Pool[FirstDormant(c)]
         IN  [c |-> [c EXCEPT !.actors[Actor] = [@ EXCEPT
                                                    !.hidden = FALSE,
                                                    !.collision = TRUE,
                                                    !.tick = TRUE,
                                                    !.replicates = TRUE,
                                                    !.replicateMovement = TRUE]],
              ret |-> Actor]
    ELSE IF bAutoExpand
    THEN LET grown == ExpandPool(c, worldOk, spawnOk)
         IN  [c |-> grown, ret |-> ReadSlot(grown, Len(grown.Pool), collected)]
    ELSE [c |-> c, ret |-> NULL]

\* PooledActor->SetLifeSpan(ActorLifespan): a positive life span arms the
\* actor's life span timer, zero clears it.
SetLifeSpan(actor) ==
    [actor EXCEPT !.lifeSpan = (ActorLifespan > 0)]

\* Mutant: the peak is not raised with the active count.
SpawnCountersNoPeak(c) ==
    LET active == c.ActiveObjects + 1
    IN  [c EXCEPT
            !.TotalObjectsCreated = @ + 1,
            !.ActiveObjects = active,
            !.InactiveObjects = Len(c.Pool) - active,
            !.OnPooledActorSpawned = @ + 1]

\* The statistics update of SpawnPooledActor (lines 208-219)
SpawnCounters(c) ==
    LET active == c.ActiveObjects + 1
    IN  [c EXCEPT
            !.TotalObjectsCreated = @ + 1,
            !.ActiveObjects = active,
            !.InactiveObjects = Len(c.Pool) - active,
            !.PeakUsage = IF active > @ THEN active ELSE @,
            !.OnPooledActorSpawned = @ + 1]

\* AActor* UObjectPoolingComponent::SpawnPooledActor(const FTransform&)
SpawnPooledActor(c, SpawnTransform, worldOk, spawnOk, collected) ==
    IF ~IsServer
    THEN [c |-> c, ret |-> NULL]
    ELSE LET requested == [c EXCEPT !.TotalSpawnRequests = @ + 1]
             got == GetPooledObject(requested, worldOk, spawnOk, collected)
             PooledActor == got.ret
         IN  IF PooledActor # NULL
             THEN [c |-> SpawnCounters(
                            [got.c EXCEPT !.actors[PooledActor] =
                                IF @.valid
                                THEN SetLifeSpan([@ EXCEPT
                                        !.location = SpawnTransform,
                                        !.hidden = FALSE,
                                        !.collision = TRUE,
                                        !.tick = TRUE,
                                        !.onDestroyed = @ + 1,
                                        !.replicates = TRUE,
                                        !.replicateMovement = TRUE])
                                ELSE @]),
                   ret |-> PooledActor]
             ELSE [c |-> got.c, ret |-> NULL]

\* for (int32 i = 0; i < PoolSize; ++i) ExpandPool();  spawnOk[i] is the
\* outcome of the host spawn primitive in iteration i (counted from 1).
\* PoolSize is written by InitializePool alone and read by this loop alone,
\* so it is carried as the loop's bound and not as a variable.
RECURSIVE ExpandLoop(_, _, _, _, _)
ExpandLoop(c, i, PoolSize, worldOk, spawnOk) ==
    IF i > PoolSize
    THEN c
    ELSE ExpandLoop(ExpandPool(c, worldOk, spawnOk[i]), i + 1, PoolSize,
                    worldOk, spawnOk)

\* void UObjectPoolingComponent::InitializePool(TSubclassOf<AActor>, int32)
InitializePool(c, Class, InitialSize, worldOk, spawnOk) ==
    IF ~IsServer
    THEN c
    ELSE ExpandLoop([c EXCEPT !.PooledObjectClass = Class],
                    1, InitialSize, worldOk, spawnOk)

\* ------------------------------------------------- async initialisation
\* The fields the async initialisers write.
Async ==
    [backgroundTasks |-> backgroundTasks,
     asyncLoads |-> asyncLoads,
     OnPoolInitialized |-> OnPoolInitialized]

CommitAsync(a) ==
    /\ backgroundTasks' = a.backgroundTasks
    /\ asyncLoads' = a.asyncLoads
    /\ OnPoolInitialized' = a.OnPoolInitialized

\* void UObjectPoolingComponent::Multicast_OnPoolInitialized_Implementation()
\* a reliable NetMulticast: the body runs on every peer.
Multicast_OnPoolInitialized(a) ==
    [a EXCEPT !.OnPoolInitialized = [p \in Peers |-> @[p] + 1]]

\* void UObjectPoolingComponent::SpawnPooledActorAsync(UClass*, const FTransform&)
\* up to the AsyncTask call; the two lambdas are the task actions below.
SpawnPooledActorAsync(a, Class, worldOk) ==
    IF ~IsValidClass(Class)
    THEN a
    ELSE IF ~worldOk
    THEN a
    ELSE [a EXCEPT !.backgroundTasks = @ + 1]

\* for (int32 i = 0; i < InitialPoolSize; i++) SpawnPooledActorAsync(...)
RECURSIVE AsyncSpawnLoop(_, _, _)
AsyncSpawnLoop(a, i, worldOk) ==
    IF i >= InitialPoolSize
    THEN a
    ELSE AsyncSpawnLoop(SpawnPooledActorAsync(a, PooledObjectClass, worldOk),
                        i + 1, worldOk)

\* void UObjectPoolingComponent::StartAsyncSpawning()
StartAsyncSpawning(a, worldOk) ==
    Multicast_OnPoolInitialized(AsyncSpawnLoop(a, 0, worldOk))

\* TSoftClassPtr::IsValid(): the referenced class is in memory
SoftIsValid(soft) == soft = SoftLoaded

\* void UObjectPoolingComponent::ExpandPoolAsync(const FTransform&)
ExpandPoolAsync(a, worldOk) ==
    IF ~authority
    THEN a
    ELSE IF ~IsValidClass(PooledObjectClass)
    THEN IF SoftIsValid(SoftPooledObjectClass)
         THEN [a EXCEPT !.asyncLoads = @ + 1]
         ELSE a
    ELSE StartAsyncSpawning(a, worldOk)

\* void UObjectPoolingComponent::InitializePoolAsync_Implementation(int32)
\* InitialSize is not read by the body.
InitializePoolAsync(a, InitialSize, worldOk) ==
    IF ~IsServer
    THEN a
    ELSE IF ~IsValidClass(PooledObjectClass)
    THEN a
    ELSE IF IsValidClass(PooledObjectClass)
    THEN ExpandPoolAsync(a, worldOk)
    ELSE [a EXCEPT !.asyncLoads = @ + 1]

\* The game-thread lambda of SpawnPooledActorAsync (lines 239-264)
GameThreadTask(c, worldOk, spawnOk) ==
    IF ~worldOk
    THEN c
    ELSE IF spawnOk
    THEN LET id == Len(c.actors) + 1
             spawned == [NewActor(InitialSpawnTransform) EXCEPT
                             !.hidden = TRUE,
                             !.collision = FALSE,
                             !.tick = FALSE,
                             !.replicates = TRUE,
                             !.replicateMovement = TRUE]
         IN  [c EXCEPT
                 !.actors = Append(c.actors, spawned),
                 !.Pool = Append(c.Pool, id),
                 !.TotalObjectsCreated = @ + 1]
    ELSE c

\* ------------------------------------------------------------- bookkeeping
\* The call that produced a state: its arguments and its result.
\* actor: the actor passed or destroyed; size: the InitialSize passed to
\* InitializePoolAsync; ret: the pointer returned; before: ActiveObjects,
\* InactiveObjects and Pool.Num() before a successful SpawnPooledActor.
Call(op, actor, ret, before) ==
    [op |-> op, actor |-> actor, size |-> 0, ret |-> ret, before |-> before]

NoCall == Call("None", NULL, NULL, <<>>)

\* Actors spawned plus the allocations already queued
Reserved == Len(actors) + backgroundTasks + gameThreadTasks

\* Progress of the sequence InitializePool(class, 2), Spawn, Spawn, Spawn,
\* Return(first result), Spawn on a fresh authority without auto-expansion
\* and with every host spawn succeeding; any other step leaves the sequence.
CycleOff == [stage |-> -1, a1 |-> NULL, a2 |-> NULL]

CycleStep(call, begins) ==
    IF cycle.stage = 0 /\ call.op = "InitializePool" /\ begins
       /\ authority /\ ~bAutoExpand
    THEN [cycle EXCEPT !.stage = 1]
    ELSE IF cycle.stage = 1 /\ call.op = "SpawnPooledActor"
    THEN [cycle EXCEPT !.stage = 2, !.a1 = call.ret]
    ELSE IF cycle.stage = 2 /\ call.op = "SpawnPooledActor"
    THEN [cycle EXCEPT !.stage = 3, !.a2 = call.ret]
    ELSE IF cycle.stage = 3 /\ call.op = "SpawnPooledActor"
    THEN [cycle EXCEPT !.stage = 4]
    ELSE IF cycle.stage = 4 /\ call.op = "ReturnObjectToPool"
            /\ call.actor = cycle.a1
    THEN [cycle EXCEPT !.stage = 5]
    ELSE IF cycle.stage = 5 /\ call.op = "SpawnPooledActor"
    THEN [cycle EXCEPT !.stage = 6]
    ELSE CycleOff

Record(call, begins) ==
    /\ last' = call
    /\ cycle' = CycleStep(call, begins)

\* ------------------------------------------------------------------ actions
Init ==
    /\ authority \in BOOLEAN
    /\ bAutoExpand \in BOOLEAN
    /\ ActorLifespan = PositiveLifespan
    /\ InitialPoolSize \in 1..MaxInitialPoolSize
    /\ SoftPooledObjectClass = SoftPending
    /\ PooledObjectClass = NoClass
    /\ InitialSpawnTransform = ZeroVector
    /\ Pool = <<>>
    /\ actors = <<>>
    /\ TotalObjectsCreated = 0
    /\ ActiveObjects = 0
    /\ InactiveObjects = 0
    /\ TotalSpawnRequests = 0
    /\ TotalReturnRequests = 0
    /\ TotalPoolExpansions = 0
    /\ PeakUsage = 0
    /\ OnPooledActorSpawned = 0
    /\ OnPooledActorReturned = 0
    /\ OnPoolInitialized = [p \in Peers |-> 0]
    /\ backgroundTasks = 0
    /\ gameThreadTasks = 0
    /\ asyncLoads = 0
    /\ tornDown = FALSE
    /\ observed = NoObservation
    /\ last = NoCall
    /\ cycle = [stage |-> 0, a1 |-> NULL, a2 |-> NULL]

\* The host's answers a call can get: without a world nothing is spawned.
\* An answer the call does not read is held at TRUE.
Host(reads, worldOk, spawnOk) ==
    /\ ~worldOk => ~spawnOk
    /\ ~reads => worldOk /\ spawnOk

\* GetPooledObject gets as far as ExpandPool
Expands == Len(Pool) # 0 /\ DormantSlots(Component) = {} /\ bAutoExpand

CallInitializePool(Class, InitialSize, worldOk, spawnOk) ==
    /\ ~tornDown
    /\ Reserved + InitialSize <= MaxActors
    /\ \A i \in 1..InitialSize :
          Host(IsServer /\ IsValidClass(Class), worldOk, spawnOk[i])
    /\ Commit(InitializePool(Component, Class, InitialSize, worldOk, spawnOk))
    /\ Record(Call("InitializePool", NULL, NULL, <<>>),
              IsValidClass(Class) /\ InitialSize = 2
              /\ \A i \in 1..InitialSize : spawnOk[i])
    /\ UNCHANGED <<config, InitialSpawnTransform, OnPoolInitialized,
                   backgroundTasks, gameThreadTasks, asyncLoads, tornDown>>

CallGetPooledObject(worldOk, spawnOk, collected) ==
    /\ ~tornDown
    /\ Expands => Reserved < MaxActors
    /\ Host(Expands /\ IsServer /\ IsValidClass(PooledObjectClass),
            worldOk, spawnOk)
    /\ (~Expands \/ IsValid(Component, Last(Pool))) => collected
    /\ LET got == GetPooledObject(Component, worldOk, spawnOk, collected)
       IN  /\ Commit(got.c)
           /\ Record(Call("GetPooledObject", NULL, got.ret, <<>>), FALSE)
    /\ UNCHANGED <<config, InitialSpawnTransform, OnPoolInitialized,
                   backgroundTasks, gameThreadTasks, asyncLoads, tornDown>>

CallSpawnPooledActor(SpawnTransform, worldOk, spawnOk, collected) ==
    /\ ~tornDown
    /\ authority => TotalSpawnRequests < MaxSpawnRequests
    /\ (IsServer /\ Expands) => Reserved < MaxActors
    /\ Host(Expands /\ IsServer /\ IsValidClass(PooledObjectClass),
            worldOk, spawnOk)
    /\ (~IsServer \/ ~Expands \/ IsValid(Component, Last(Pool))) => collected
    /\ LET got == SpawnPooledActor(Component, SpawnTransform, worldOk, spawnOk,
                                   collected)
       IN  /\ Commit(got.c)
           /\ Record(Call("SpawnPooledActor", NULL, got.ret,
                          IF got.ret = NULL THEN <<>>
                          ELSE <<ActiveObjects, InactiveObjects, Len(Pool)>>),
                     FALSE)
    /\ UNCHANGED <<config, InitialSpawnTransform, OnPoolInitialized,
                   backgroundTasks, gameThreadTasks, asyncLoads, tornDown>>

\* The pointers a caller passes: nullptr, a live actor of the pool, or a
\* live actor that is no member.
ReturnArguments ==
    {NULL, Stranger} \cup {a \in DOMAIN actors : actors[a].valid}

CallReturnObjectToPool(Actor) ==
    /\ ~tornDown
    /\ TotalReturnRequests < MaxReturnRequests
    /\ Commit(ReturnObjectToPool(Component, Actor))
    /\ Record(Call("ReturnObjectToPool", Actor, NULL, <<>>), FALSE)
    /\ UNCHANGED <<config, InitialSpawnTransform, OnPoolInitialized,
                   backgroundTasks, gameThreadTasks, asyncLoads, tornDown>>

\* The life span timer that SetLifeSpan armed fires: the actor destroys itself.
LifeSpanExpired(Actor) ==
    /\ ~tornDown
    /\ actors[Actor].valid
    /\ actors[Actor].lifeSpan
    /\ Commit(DestroyActor(Component, Actor))
    /\ Record(Call("LifeSpanExpired", Actor, NULL, <<>>), FALSE)
    /\ UNCHANGED <<config, InitialSpawnTransform, OnPoolInitialized,
                   backgroundTasks, gameThreadTasks, asyncLoads, tornDown>>

\* The host world destroys the actor out of band.
DestroyedByWorld(Actor) ==
    /\ ~tornDown
    /\ actors[Actor].valid
    /\ Commit(DestroyActor(Component, Actor))
    /\ Record(Call("DestroyedByWorld", Actor, NULL, <<>>), FALSE)
    /\ UNCHANGED <<config, InitialSpawnTransform, OnPoolInitialized,
                   backgroundTasks, gameThreadTasks, asyncLoads, tornDown>>

CallInitializePoolAsync(InitialSize, worldOk) ==
    /\ ~tornDown
    /\ Reserved + InitialPoolSize <= MaxActors
    /\ OnPoolInitialized["authority"] < MaxMulticasts
    /\ InitialSpawnTransform' = IF IsServer THEN InitialSpawnZ
                                ELSE InitialSpawnTransform
    /\ CommitAsync(InitializePoolAsync(Async, InitialSize, worldOk))
    /\ observed' = NoObservation
    /\ Record([Call("InitializePoolAsync", NULL, NULL, <<>>)
                  EXCEPT !.size = InitialSize], FALSE)
    /\ UNCHANGED <<config, PooledObjectClass, Pool, actors, counters,
                   OnPooledActorSpawned, OnPooledActorReturned, gameThreadTasks,
                   tornDown>>

\* The background lambda of SpawnPooledActorAsync: hands over to the game thread.
BackgroundTask ==
    /\ backgroundTasks > 0
    /\ backgroundTasks' = backgroundTasks - 1
    /\ gameThreadTasks' = gameThreadTasks + 1
    /\ observed' = NoObservation
    /\ Record(Call("BackgroundTask", NULL, NULL, <<>>), FALSE)
    /\ UNCHANGED <<config, PooledObjectClass, InitialSpawnTransform,
                   Pool, actors, counters, OnPooledActorSpawned,
                   OnPooledActorReturned, OnPoolInitialized, asyncLoads,
                   tornDown>>

\* The game-thread lambda captured `this` as a raw pointer and reads nothing
\* that tells whether the component is still there.  After the component
\* has been destroyed the actor is still spawned into the world; the writes
\* through `this` land where the component was as long as the garbage
\* collector has not reclaimed it (landed), and go astray afterwards.
RunGameThreadTask(worldOk, spawnOk, landed) ==
    /\ gameThreadTasks > 0
    /\ gameThreadTasks' = gameThreadTasks - 1
    /\ Host(TRUE, worldOk, spawnOk)
    /\ (~tornDown \/ ~spawnOk) => landed
    /\ LET done == GameThreadTask(Component, worldOk, spawnOk)
       IN  Commit(IF landed THEN done
                  ELSE [Component EXCEPT !.actors = done.actors])
    /\ Record(Call("GameThreadTask", NULL, NULL, <<>>), FALSE)
    /\ UNCHANGED <<config, InitialSpawnTransform, OnPoolInitialized,
                   backgroundTasks, asyncLoads, tornDown>>

\* The component is destroyed with its owner (EndPlay, DestroyComponent)
\* while allocation tasks are in flight.  Nothing in the component cancels
\* them.  A component torn down with nothing in flight is never entered
\* again, so the model follows a torn-down component only for the tasks it
\* left behind.
Teardown ==
    /\ ~tornDown
    /\ backgroundTasks + gameThreadTasks + asyncLoads > 0
    /\ tornDown' = TRUE
    /\ observed' = NoObservation
    /\ Record(Call("Teardown", NULL, NULL, <<>>), FALSE)
    /\ UNCHANGED <<config, PooledObjectClass, InitialSpawnTransform,
                   Pool, actors, counters, OnPooledActorSpawned,
                   OnPooledActorReturned, OnPoolInitialized,
                   backgroundTasks, gameThreadTasks, asyncLoads>>

Next ==
    \/ \E Class \in {NoClass, ActorClass}, InitialSize \in 0..MaxInitialSize,
          worldOk \in BOOLEAN :
          \E spawnOk \in [1..InitialSize -> BOOLEAN] :
             CallInitializePool(Class, InitialSize, worldOk, spawnOk)
    \/ \E worldOk \in BOOLEAN, spawnOk \in BOOLEAN, collected \in BOOLEAN :
          CallGetPooledObject(worldOk, spawnOk, collected)
    \/ \E SpawnTransform \in Transforms, worldOk \in BOOLEAN, spawnOk \in BOOLEAN,
          collected \in BOOLEAN :
          CallSpawnPooledActor(SpawnTransform, worldOk, spawnOk, collected)
    \/ \E Actor \in ReturnArguments : CallReturnObjectToPool(Actor)
    \/ \E Actor \in DOMAIN actors : LifeSpanExpired(Actor)
    \/ \E Actor \in DOMAIN actors : DestroyedByWorld(Actor)
    \/ \E InitialSize \in 1..MaxInitialSize, worldOk \in BOOLEAN :
          CallInitializePoolAsync(InitialSize, worldOk)
    \/ BackgroundTask
    \/ \E worldOk \in BOOLEAN, spawnOk \in BOOLEAN, landed \in BOOLEAN :
          RunGameThreadTask(worldOk, spawnOk, landed)
    \/ Teardown

Spec == Init /\ [][Next]_vars

\* =================================================================== claims
Members == {Pool[i] : i \in 1..Len(Pool)}

\* Dormant and Active as the actor's own flags say
Dormant(a) == a \in DOMAIN actors /\ actors[a].valid /\ actors[a].hidden
Active(a) == a \in DOMAIN actors /\ actors[a].valid /\ ~actors[a].hidden

AllActive == \A a \in Members : Active(a)
NoneDormant == \A a \in Members : ~Dormant(a)
Drained == backgroundTasks = 0 /\ gameThreadTasks = 0 /\ asyncLoads = 0
Destroys(call) == call.op \in {"LifeSpanExpired", "DestroyedByWorld"}
MutatingCalls ==
    {"InitializePool", "InitializePoolAsync", "SpawnPooledActor",
     "ReturnObjectToPool"}

\* C1: on the authority, after every completed operation (the allocation
\* tasks of InitializePoolAsync included) active + inactive equals the number
\* of entries of Pool.
C1_ActivePlusInactiveIsPoolSize ==
    authority => ActiveObjects + InactiveObjects = Len(Pool)

\* C2: ReturnObjectToPool(a) called a second time in a row for a pool member
\* a changes none of the member flags, active, inactive, return_requests and
\* the number of returned-observer fires.
C2_ReturnIsIdempotent ==
    [][\A a \in Members :
          (/\ authority
           /\ last.op = "ReturnObjectToPool" /\ last.actor = a
           /\ last'.op = "ReturnObjectToPool" /\ last'.actor = a)
          => UNCHANGED <<actors, ActiveObjects, InactiveObjects,
                         TotalReturnRequests, OnPooledActorReturned>>]_vars

\* C3: when the host world destroys an Active pool member (life span expiry
\* or out of band) whose destruction the component has subscribed to, active
\* decreases by exactly one and the destroyed reference is no longer an entry
\* of Pool.
C3_DestroyedMemberIsDropped ==
    [][\A a \in Members :
          (/\ authority
           /\ Active(a) /\ actors[a].onDestroyed > 0
           /\ Destroys(last') /\ last'.actor = a)
          => /\ ActiveObjects' = ActiveObjects - 1
             /\ ~Contains(Pool', a)]_vars

\* C4: on a non-authoritative peer no mutating call changes the size of Pool
\* or any counter, and SpawnPooledActor returns null.
C4_NonAuthorityChangesNothing ==
    [][(~authority /\ last'.op \in MutatingCalls)
          => /\ Len(Pool') = Len(Pool)
             /\ UNCHANGED counters
             /\ last'.op = "SpawnPooledActor" => last'.ret = NULL]_vars

C4_Witness ==
    /\ ~authority
    /\ last.op = "SpawnPooledActor"
    /\ last.ret = NULL

\* C5: on the authority with auto_expand clear and no Dormant member,
\* SpawnPooledActor returns null, leaves the size of Pool, active, inactive
\* and peak_active as they are, and increments spawn_requests by one.
C5_Exhaustion ==
    [][(/\ authority /\ ~bAutoExpand
        /\ NoneDormant
        /\ last'.op = "SpawnPooledActor")
          => /\ last'.ret = NULL
             /\ Len(Pool') = Len(Pool)
             /\ UNCHANGED <<ActiveObjects, InactiveObjects, PeakUsage>>
             /\ TotalSpawnRequests' = TotalSpawnRequests + 1]_vars

C5_Witness ==
    /\ authority /\ ~bAutoExpand
    /\ Len(Pool) > 0 /\ AllActive
    /\ last.op = "SpawnPooledActor" /\ last.ret = NULL

\* The step is a SpawnPooledActor during which the host spawn primitive
\* would succeed.
SpawnWithHostOk ==
    \E SpawnTransform \in Transforms, collected \in BOOLEAN :
       CallSpawnPooledActor(SpawnTransform, TRUE, TRUE, collected)

C7_ReuseCycle ==
    [][/\ cycle'.stage >= 2 => cycle'.a1 \in Members'
       /\ cycle'.stage >= 3 => cycle'.a2 \in Members' /\ cycle'.a2 # cycle'.a1
       /\ cycle'.stage = 4 => last'.ret = NULL
       /\ cycle'.stage = 6 =>
             /\ last'.ret = cycle.a1
             /\ \A T \in Transforms :
                   (\E w, s, g \in BOOLEAN : CallSpawnPooledActor(T, w, s, g))
                      => actors'[cycle.a1].location = T
             /\ ActiveObjects' = 2
             /\ InactiveObjects' = 0
             /\ PeakUsage' = 2
       /\ \A a \in Members :
             (/\ authority
              /\ DormantSlots(Component) # {}
              /\ a = Pool[FirstDormant(Component)]
              /\ last'.op = "SpawnPooledActor")
             => last'.ret = a]_vars

C7_Witness ==
    /\ cycle.stage = 6
    /\ last.ret = cycle.a1
    /\ OnPooledActorReturned = 1

\* C8: InitializePoolAsync(n) on the authority of a fresh pool with the class
\* unresolved and the deferred reference loadable: once the load has
\* completed and the schedulers have drained, Pool holds n members and the
\* pool-initialized event has fired exactly once on every peer.
C8_DeferredAsyncInit ==
    (/\ authority
     /\ last.op = "InitializePoolAsync"
     /\ ~IsValidClass(PooledObjectClass)
     /\ SoftPooledObjectClass = SoftPending
     /\ TotalObjectsCreated = 0
     /\ Drained)
    => /\ Len(Pool) = last.size
       /\ \A p \in Peers : OnPoolInitialized[p] = 1

\* C9: a successful SpawnPooledActor immediately followed by
\* ReturnObjectToPool of the actor it returned restores active and inactive
\* and leaves the size of Pool as before the spawn.  Stated for the spawns
\* that take a member Pool already held, where no growth is involved.
C9_SpawnReturnRoundTrip ==
    [][(/\ authority
        /\ last.op = "SpawnPooledActor" /\ last.ret # NULL
        /\ Len(Pool) = last.before[3]
        /\ last'.op = "ReturnObjectToPool" /\ last'.actor = last.ret)
          => /\ ActiveObjects' = last.before[1]
             /\ InactiveObjects' = last.before[2]
             /\ Len(Pool') = last.before[3]]_vars

\* C10: every successful SpawnPooledActor fires the spawned-observer exactly
\* once, and every release of an Active member, by ReturnObjectToPool or by
\* the destruction handler subscribed to it, fires the returned-observer
\* exactly once.
C10_ObserversFireOnce ==
    [][/\ (authority /\ last'.op = "SpawnPooledActor" /\ last'.ret # NULL)
             => OnPooledActorSpawned' = OnPooledActorSpawned + 1
       /\ \A a \in Members :
             (/\ authority /\ Active(a)
              /\ \/ last'.op = "ReturnObjectToPool"
                 \/ Destroys(last') /\ actors[a].onDestroyed > 0
              /\ last'.actor = a)
             => OnPooledActorReturned' = OnPooledActorReturned + 1]_vars

\* C11: in every reachable state, whatever initialisations, spawns, returns,
\* expansions and destructions came before, peak_active is at least active.
C11_PeakAtLeastActive ==
    PeakUsage >= ActiveObjects

\* active has risen to 2 and come down again, the peak stays behind at 2
C11_Witness ==
    /\ authority
    /\ PeakUsage = 2
    /\ ActiveObjects = 1
    /\ last.op \in {"ReturnObjectToPool", "LifeSpanExpired"}

\* C12: when actor_lifespan has elapsed for a member that SpawnPooledActor
\* handed out, the member is back in the pool: Dormant, still a valid entry
\* of Pool (not destroyed), the returned-observer has fired exactly once for
\* it, and no life span timer remains pending for it.
C12_TimerReturnsMember ==
    [][\A a \in Members :
          (/\ authority
           /\ Active(a) /\ actors[a].lifeSpan /\ actors[a].onDestroyed = 1
           /\ last'.op = "LifeSpanExpired" /\ last'.actor = a)
          => /\ actors'[a].valid /\ actors'[a].hidden
             /\ Contains(Pool', a)
             /\ OnPooledActorReturned' = OnPooledActorReturned + 1
             /\ ~actors'[a].lifeSpan]_vars

\* The calls that run ExpandPool
ExpandingCalls == {"InitializePool", "GetPooledObject", "SpawnPooledActor"}

\* C13 as stated: expansions counts only the growth on demand: InitializePool
\* leaves it as it is (0 after InitializePool(class, 2) alone and through the
\* reuse cycle without auto-expansion), and an acquisition that grows the
\* pool through auto_expand raises it by exactly one.
C13_ExpansionsOnlyOnDemand ==
    [][/\ (authority /\ last'.op = "InitializePool")
             => TotalPoolExpansions' = TotalPoolExpansions
       /\ cycle'.stage >= 1 => TotalPoolExpansions' = 0
       /\ (authority /\ last'.op = "SpawnPooledActor" /\ Len(Pool') > Len(Pool))
             => TotalPoolExpansions' = TotalPoolExpansions + 1]_vars

\* C13 amended: expansions counts every allocation of ExpandPool, the initial
\* population included: InitializePool raises it by the number of members it
\* appended (2 after InitializePool(class, 2) alone and through the reuse
\* cycle), an acquisition that grows the pool through auto_expand raises it
\* by exactly one, and nothing else changes it.
C13_ExpansionsCountAllocations ==
    [][/\ last'.op \in ExpandingCalls
             => TotalPoolExpansions' - TotalPoolExpansions
                   = Len(Pool') - Len(Pool)
       /\ last'.op \notin ExpandingCalls => UNCHANGED TotalPoolExpansions
       /\ cycle'.stage >= 1 => TotalPoolExpansions' = 2
       /\ (authority /\ last'.op = "SpawnPooledActor" /\ Len(Pool') > Len(Pool))
             => TotalPoolExpansions' = TotalPoolExpansions + 1]_vars

\* InitializePool(class, 1) with auto_expand, then two spawns
C13_Witness ==
    /\ authority /\ bAutoExpand
    /\ last.op = "SpawnPooledActor" /\ last.ret # NULL
    /\ last.before[3] = 1
    /\ TotalSpawnRequests = 2
    /\ Len(Pool) = 2
    /\ TotalPoolExpansions = 2
    /\ OnPoolInitialized["authority"] = 0

\* C14: a SpawnPooledActor that takes a Dormant member the pool already holds
\* leaves total_created as it is, and total_created is always the number of
\* actors allocated and appended to Pool (by ExpandPool or by an allocation
\* task).
C14_AcquisitionKeepsTotalCreated ==
    [][/\ (/\ authority
           /\ DormantSlots(Component) # {}
           /\ last'.op = "SpawnPooledActor" /\ last'.ret # NULL)
          => TotalObjectsCreated' = TotalObjectsCreated
       /\ TotalObjectsCreated' = Len(actors')]_vars

\* The step is a SpawnPooledActor during which the host spawn primitive
\* fails, or for which no class is set.
SpawnWithHostFailing ==
    \/ \E SpawnTransform \in Transforms, worldOk \in BOOLEAN,
          collected \in BOOLEAN :
          CallSpawnPooledActor(SpawnTransform, worldOk, FALSE, collected)
    \/ /\ ~IsValidClass(PooledObjectClass)
       /\ last'.op = "SpawnPooledActor"

\* C15: with auto_expand set and no Dormant member, a SpawnPooledActor whose
\* expansion fails (the host spawn primitive returns null, or the class is
\* unset) returns null, fires no spawned-observer and leaves Pool, active,
\* inactive, peak_active, total_created and expansions as they are.
C15_SpawnFailureIsNull ==
    [][(/\ authority /\ bAutoExpand
        /\ NoneDormant
        /\ SpawnWithHostFailing)
          => /\ last'.ret = NULL
             /\ UNCHANGED <<Pool, ActiveObjects, InactiveObjects, PeakUsage,
                            TotalObjectsCreated, TotalPoolExpansions,
                            OnPooledActorSpawned>>]_vars

\* C16: once ReturnObjectToPool has released a member, no life span expiry
\* of that member occurs while it stays Dormant.
C16_ReleaseCancelsLifespan ==
    [][\A a \in Members :
          (authority /\ Dormant(a) /\ TotalReturnRequests > 0)
          => ~(last'.op = "LifeSpanExpired" /\ last'.actor = a)]_vars

\* C17: when the returned-observer fires for ReturnObjectToPool(a) of an
\* Active member a, the member is already Dormant and active, inactive and
\* return_requests already have the values they have when the call is over.
C17_ObserverSeesPostReturnState ==
    [][\A a \in Members :
          (/\ authority /\ Active(a)
           /\ last'.op = "ReturnObjectToPool" /\ last'.actor = a)
          => /\ observed'.actor = a
             /\ observed'.hidden
             /\ observed'.ActiveObjects = ActiveObjects'
             /\ observed'.InactiveObjects = InactiveObjects'
             /\ observed'.TotalReturnRequests = TotalReturnRequests']_vars

\* C18: InitializePoolAsync(n) on the authority with the class resolved and a
\* world at hand enqueues exactly n allocation tasks, whatever the other
\* configured sizes, and issues the pool-initialized multicast in the same
\* call, after the enqueues.
C18_AsyncEnqueuesInitialSize ==
    [][(/\ authority
        /\ IsValidClass(PooledObjectClass)
        /\ \E n \in 1..MaxInitialSize : CallInitializePoolAsync(n, TRUE))
          => /\ backgroundTasks' = backgroundTasks + last'.size
             /\ \A p \in Peers :
                   OnPoolInitialized'[p] = OnPoolInitialized[p] + 1]_vars

\* C19: once the component has been torn down, a completion that arrives
\* late (an allocation task or a class load still in flight) spawns no actor
\* and touches neither Pool nor the counters.
C19_LateCompletionIgnored ==
    [][tornDown => UNCHANGED <<actors, Pool, counters>>]_vars

\* The Pool entries whose actor is Active
ActiveSlots == {i \in 1..Len(Pool) : Active(Pool[i])}

\* C20: on the authority, after any sequence of the synchronous public
\* operations and destruction notifications, active is the number of Pool
\* members that are Active, and active and inactive both lie between 0 and
\* the size of Pool.
C20_ActiveCountsActiveMembers ==
    (authority /\ OnPoolInitialized["authority"] = 0)
    => /\ ActiveObjects = Cardinality(ActiveSlots)
       /\ 0 <= ActiveObjects /\ ActiveObjects <= Len(Pool)
       /\ 0 <= InactiveObjects /\ InactiveObjects <= Len(Pool)

====
